---------------------------- MODULE Spec2Model ----------------------------
(***************************************************************************)
(* Model of the orchestration core of proximity (a layer-4 proxy):         *)
(*   - utils.rs   WaitFor, the any/all join combinator with snapshots      *)
(*   - signal.rs  Sender/Receiver over a tokio watch channel               *)
(*   - main.rs    serve(): spawn listeners, wait-for-any, Stop, wait-all   *)
(*   - server/    the TCP, UDP and Unix listener drivers                   *)
(*   - upstream/  the samplers, UpstreamImpl and the Host failure window   *)
(*                                                                         *)
(* The variable `mode` selects which part of the program a behaviour       *)
(* exercises:                                                              *)
(*   "waitfor"  a caller driving WaitFor over arbitrary futures            *)
(*   "signal"   a Sender and cloned Receivers used by arbitrary tasks      *)
(*   "serve"    the whole of serve() with its listener tasks               *)
(*   "upstream" samplers and upstreams, built directly or by init()        *)
(*   "host"     one Host, its failed() calls and the passage of time       *)
(*   "hosteq"   two Hosts compared with ==, between failed() calls         *)
(***************************************************************************)
EXTENDS Integers, Sequences, FiniteSets, TLC

\* ------------------------------------------------------------- bounds
MaxTasks == 3       \* futures handed to a WaitFor in mode "waitfor"
MaxInstances == 2   \* WaitFor instances built one after the other
MaxRx == 2          \* receivers of one signal channel in mode "signal"
MaxSends == 2       \* calls of Sender::send in one behaviour
MaxServers == 2     \* listeners handed to serve()
MaxAccepts == 1     \* connections one TCP listener accepts
MaxLength == 3      \* candidates of a sampler built directly
MaxHosts == 2       \* hosts of one upstream group
MaxWeight == 2      \* largest weight of a host or sampler candidate
MaxSamples == 6     \* calls of sample() / next() on a round-robin sampler
MaxDraws == 2       \* calls of sample() / next() on a weighted sampler
MaxTime == 5        \* instants the clock of mode "host" runs through
MaxTimeout == 3     \* largest fail_timeout of a Host
MaxCalls == 4       \* calls of Host::failed in one behaviour
MaxDiff == 2        \* fields in which the two Hosts of mode "hosteq" differ
MaxEqTime == 1      \* instants the clock of mode "hosteq" runs through
MaxEqCalls == 2     \* calls of Host::failed in mode "hosteq"

VARIABLES
    mode,           \* which harness this behaviour runs
    task_out,       \* task i |-> "Running", or the output its future yields
    strategy,       \* WaitFor.strategy
    future_states,  \* WaitFor.future_states
    wf_state,       \* "live" | "resolved" (poll returned Ready) | "ceased"
    handed,         \* the Vec the combinator last gave its caller
    input,          \* the Vec the current instance was built from
    origin,         \* what produced `input`: [strategy, how], how being
                    \* "fresh" (the caller's futures), "resolved", "ceased"
    last_op,        \* the operation that produced this state
    last_polled,    \* positions whose future the last poll round polled
    instances,      \* instances built so far
    sig_value,      \* watch channel: the value slot
    sig_version,    \* watch channel: the version of the value slot
    sender_alive,   \* FALSE once the Sender is dropped
    rx_version,     \* receiver r |-> the version it has marked as seen
    rx_pc,          \* receiver r |-> "none" (not created), "idle",
                    \*   "changed" (in receive(), awaiting changed()),
                    \*   "borrow" (changed() returned, borrow() is next)
    rx_got,         \* receiver r |-> the value its last receive() returned
    rx_fresh,       \* receiver r |-> TRUE iff nothing was sent since its
                    \*   last receive() returned (or since the channel
                    \*   was made, if it never returned)
    sends,          \* number of values sent so far
    last_sent,      \* the value sent last ("none" before the first send)
    serve_pc,       \* where serve() is: "select", "stop", "join",
                    \*   "wait_all", "collect", "returned", "panicked"
    ctrl_c,         \* tokio::signal::ctrl_c(): "none", or its result
    kinds,          \* listener i |-> "TCP" | "UDP" | "UNIX"
    srv_pc,         \* listener i |-> "start", "loop", "done"
    accepted,       \* listener i |-> connections accepted so far
    started_late,   \* listener i |-> TRUE iff Stop had been sent when it
                    \*   first called receive()
    serve_result,   \* what serve() returned, or the panic that ended it
    sampler,        \* the Result of the sampler constructor, with the
                    \*   sampler's state; [tag |-> "none"] before
    samples,        \* the indices sample() has returned, in call order
    upstream,       \* the upstream: [tag |-> "none"], the ConfigError of
                    \*   init(), or [tag |-> "Ok", by, hosts]
    addrs,          \* the ports of the addresses next() has returned
    up_fault,       \* "none", or the panic that ended sample() / next()
    ctor,           \* what the sampler or upstream was constructed from
    now,            \* time::Instant::now()
    fail_timeout,   \* Host.fail_timeout
    fails,          \* Host.fails, a min-heap, kept as a sorted sequence
    last_fail,      \* Host.last_fail
    calls,          \* the instants at which failed() was called
    host_pair,      \* the two Hosts that are compared, all fields
    eq_result       \* "none", or what host_pair[1] == host_pair[2] gave last

wfVars == <<task_out, strategy, future_states, wf_state, handed, input,
            origin, last_op, last_polled, instances>>

sigVars == <<sig_value, sig_version, sender_alive, rx_version, rx_pc,
             rx_got, rx_fresh, sends, last_sent>>

srvVars == <<serve_pc, ctrl_c, kinds, srv_pc, accepted, started_late,
             serve_result>>

upVars == <<sampler, samples, upstream, addrs, up_fault, ctor>>

hostVars == <<now, fail_timeout, fails, last_fail, calls>>

eqVars == <<host_pair, eq_result>>

vars == <<mode, wfVars, sigVars, srvVars, upVars, hostVars, eqVars>>

\* ----------------------------------------------------- utils.rs: types
Running == "Running"

\* Output of a server task's JoinHandle: Ok(Ok(())), Ok(Err(BindError)),
\* Err(JoinError::Panic).
Outputs == {"Ok", "BindError", "Panic"}

Strategy == {"Any", "All"}

Pending(fut) == [tag |-> "Pending", fut |-> fut]

Ready(res) == [tag |-> "Ready", res |-> res]

IsReady(fs) == fs.tag = "Ready"

IsPending(fs) == fs.tag = "Pending"

\* ------------------------------------------------ utils.rs: WaitFor::poll
\* fut.as_mut().poll(cx) of the future of task `fut`.
PollFuture(fut, out) ==
    IF out[fut] = Running THEN [tag |-> "Pending"] ELSE Ready(out[fut])

\* One iteration of the for loop: the match on one future_state.
PollState(fs, out) ==
    IF IsReady(fs) THEN fs
    ELSE IF PollFuture(fs.fut, out).tag = "Pending" THEN fs
         ELSE Ready(PollFuture(fs.fut, out).res)

\* Mutant of PollStates: entries that are Ready after the round are moved in
\* front of the Pending ones.
PollStatesReordering(states, out) ==
    LET polled == [i \in 1..Len(states) |-> PollState(states[i], out)] IN
    SelectSeq(polled, IsReady) \o SelectSeq(polled, IsPending)

\* The for loop over self.future_states.iter_mut().
PollStates(states, out) ==
    [i \in 1..Len(states) |-> PollState(states[i], out)]

\* Mutant of PolledPositions: the loop polls every entry's future again.
PolledPositionsAll(states) ==
    1..Len(states)

\* Positions whose future the loop polls: the Pending arm only.
PolledPositions(states) ==
    {i \in 1..Len(states) : IsPending(states[i])}

\* ready_cnt after the loop.
ReadyCnt(states) ==
    Cardinality({i \in 1..Len(states) : IsReady(states[i])})

\* Mutant of Resolves: Any needs more than one Ready task.
ResolvesAnyOffByOne(strat, states) ==
    \/ strat = "Any" /\ ReadyCnt(states) > 1
    \/ strat = "All" /\ ReadyCnt(states) = Len(states)

\* Mutant of Resolves: All settles for all but one task.
ResolvesAllEarly(strat, states) ==
    \/ strat = "Any" /\ ReadyCnt(states) > 0
    \/ strat = "All" /\ ReadyCnt(states) + 1 >= Len(states)

\* Mutant of Resolves: All needs at least one task.
ResolvesAllNonEmpty(strat, states) ==
    \/ strat = "Any" /\ ReadyCnt(states) > 0
    \/ strat = "All" /\ ReadyCnt(states) = Len(states) /\ Len(states) > 0

\* Mutant of Resolves: Any is content with no task at all.
ResolvesAnyVacuous(strat, states) ==
    \/ strat = "Any" /\ (ReadyCnt(states) > 0 \/ Len(states) = 0)
    \/ strat = "All" /\ ReadyCnt(states) = Len(states)

\* The condition of the if after the loop.
Resolves(strat, states) ==
    \/ strat = "Any" /\ ReadyCnt(states) > 0
    \/ strat = "All" /\ ReadyCnt(states) = Len(states)

\* ---------------------------------------- utils.rs: AsFutureStates, wait_for
\* impl AsFutureStates for Vec<F>: every future becomes Pending, in order.
AsFutureStatesVec(futs) ==
    [i \in 1..Len(futs) |-> Pending(futs[i])]

\* Mutant of AsFutureStatesStates: only the Pending entries are kept.
AsFutureStatesPendingOnly(states) ==
    SelectSeq(states, IsPending)

\* impl AsFutureStates for Vec<FutureState<F>>: into_iter().collect().
AsFutureStatesStates(states) ==
    [i \in 1..Len(states) |-> states[i]]

\* serve() is not part of this behaviour.
\* The upstream layer is not exercised.
NoUpstream ==
    /\ sampler = [tag |-> "none"]
    /\ samples = <<>>
    /\ upstream = [tag |-> "none"]
    /\ addrs = <<>>
    /\ up_fault = "none"
    /\ ctor = [kind |-> "none"]

\* No two Hosts are compared.
NoHostPair ==
    /\ host_pair = <<>>
    /\ eq_result = "none"

\* No Host is exercised.
NoHost ==
    /\ now = 0
    /\ fail_timeout = 0
    /\ fails = <<>>
    /\ last_fail = 0
    /\ calls = <<>>

\* No WaitFor instance is exercised.
NoWaitFor ==
    /\ task_out = <<>>
    /\ input = <<>>
    /\ future_states = <<>>
    /\ strategy = "Any"
    /\ wf_state = "ceased"
    /\ handed = <<>>
    /\ origin = [strategy |-> "none", how |-> "fresh"]
    /\ last_op = "init"
    /\ last_polled = {}
    /\ instances = 0

NoServe ==
    /\ serve_pc = "none"
    /\ ctrl_c = "none"
    /\ kinds = <<>>
    /\ srv_pc = <<>>
    /\ accepted = <<>>
    /\ started_late = <<>>
    /\ serve_result = [kind |-> "none"]

\* ------------------------------------------------------------ signal.rs
Signal == {"Init", "Stop", "Reload"}

\* signaler(): watch::channel(Signal::Init); receivers `rs` exist, none has
\* called receive().
SignalerInit(rs) ==
    /\ sig_value = "Init"
    /\ sig_version = 0
    /\ sender_alive = TRUE
    /\ rx_version = [r \in rs |-> 0]
    /\ rx_got = [r \in rs |-> "none"]
    /\ rx_fresh = [r \in rs |-> TRUE]
    /\ sends = 0
    /\ last_sent = "none"

\* Mutant of SendEffect: the value is stored but the version is not bumped.
SendEffectNoVersion(sig) ==
    /\ sig_value' = sig
    /\ sig_version' = sig_version
    /\ sends' = sends + 1
    /\ last_sent' = sig
    /\ rx_fresh' = [r \in DOMAIN rx_fresh |-> FALSE]

\* Sender::send: watch::Sender::send stores the value and bumps the
\* version. (It fails only when no receiver is left; serve() keeps the
\* original receiver until it returns.)
SendEffect(sig) ==
    /\ sig_value' = sig
    /\ sig_version' = sig_version + 1
    /\ sends' = sends + 1
    /\ last_sent' = sig
    /\ rx_fresh' = [r \in DOMAIN rx_fresh |-> FALSE]

\* Receiver::clone: the clone starts from the version its source has seen.
CloneVersion(src) == rx_version[src]

\* Mutant of ChangedReady: a moved version does not wake the receiver.
ChangedReadyClosedOnly(r) ==
    ~sender_alive

\* watch::Receiver::changed() can return: the version moved since this
\* receiver marked it (Ok), or the Sender is gone (Err, ignored by receive).
ChangedReady(r) ==
    \/ rx_version[r] /= sig_version
    \/ ~sender_alive

\* Receiver::receive, first half: changed().await returns and marks the
\* current version as seen.
ChangedEffect(r) ==
    /\ rx_version' = [rx_version EXCEPT ![r] = sig_version]
    /\ rx_pc' = [rx_pc EXCEPT ![r] = "borrow"]

\* Receiver::receive, second half: *self.receiver.borrow() reads the value
\* slot as it is now and returns it.
BorrowEffect(r) ==
    /\ rx_got' = [rx_got EXCEPT ![r] = sig_value]
    /\ rx_fresh' = [rx_fresh EXCEPT ![r] = TRUE]

\* A call of receive() starts: the task awaits changed().
ReceiveCallEffect(r) ==
    /\ rx_pc' = [rx_pc EXCEPT ![r] = "changed"]

\* No signal channel is exercised.
NoSignal ==
    /\ SignalerInit({})
    /\ rx_pc = <<>>

\* ------------------------------------------------------- mode "signal"
InitSignal ==
    /\ mode = "signal"
    /\ NoUpstream
    /\ NoHostPair
    /\ NoHost
    /\ SignalerInit(1..MaxRx)
    /\ rx_pc = [r \in 1..MaxRx |-> IF r = 1 THEN "idle" ELSE "none"]
    /\ task_out = <<>>
    /\ input = <<>>
    /\ future_states = <<>>
    /\ strategy = "Any"
    /\ wf_state = "ceased"
    /\ handed = <<>>
    /\ origin = [strategy |-> "none", how |-> "fresh"]
    /\ last_op = "init"
    /\ last_polled = {}
    /\ instances = 0
    /\ NoServe

SigSend(sig) ==
    /\ mode = "signal"
    /\ sender_alive
    /\ sends < MaxSends
    /\ SendEffect(sig)
    /\ UNCHANGED <<mode, eqVars, upVars, hostVars, sender_alive, rx_version, rx_pc, rx_got>>
    /\ UNCHANGED <<wfVars, srvVars>>

\* The Sender is dropped: every changed() returns from now on.
SigDropSender ==
    /\ mode = "signal"
    /\ sender_alive
    /\ sender_alive' = FALSE
    /\ UNCHANGED <<mode, eqVars, upVars, hostVars, sig_value, sig_version, rx_version, rx_pc, rx_got,
                   rx_fresh, sends, last_sent>>
    /\ UNCHANGED <<wfVars, srvVars>>

\* #[derive(Clone)] on Receiver: `dst` is cloned from `src`.
SigClone(src, dst) ==
    /\ mode = "signal"
    /\ rx_pc[src] = "idle"
    /\ rx_pc[dst] = "none"
    /\ rx_version' = [rx_version EXCEPT ![dst] = CloneVersion(src)]
    /\ rx_pc' = [rx_pc EXCEPT ![dst] = "idle"]
    /\ rx_fresh' = [rx_fresh EXCEPT ![dst] = rx_fresh[src]]
    /\ UNCHANGED <<mode, eqVars, upVars, hostVars, sig_value, sig_version, sender_alive, rx_got, sends, last_sent>>
    /\ UNCHANGED <<wfVars, srvVars>>

SigReceive(r) ==
    /\ mode = "signal"
    /\ rx_pc[r] = "idle"
    /\ ReceiveCallEffect(r)
    /\ UNCHANGED <<mode, eqVars, upVars, hostVars, sig_value, sig_version, sender_alive, rx_version,
                   rx_got, rx_fresh, sends, last_sent>>
    /\ UNCHANGED <<wfVars, srvVars>>

SigChanged(r) ==
    /\ mode = "signal"
    /\ rx_pc[r] = "changed"
    /\ ChangedReady(r)
    /\ ChangedEffect(r)
    /\ UNCHANGED <<mode, eqVars, upVars, hostVars, sig_value, sig_version, sender_alive, rx_got,
                   rx_fresh, sends, last_sent>>
    /\ UNCHANGED <<wfVars, srvVars>>

SigBorrow(r) ==
    /\ mode = "signal"
    /\ rx_pc[r] = "borrow"
    /\ BorrowEffect(r)
    /\ rx_pc' = [rx_pc EXCEPT ![r] = "idle"]
    /\ UNCHANGED <<mode, eqVars, upVars, hostVars, sig_value, sig_version, sender_alive, rx_version, sends, last_sent>>
    /\ UNCHANGED <<wfVars, srvVars>>

NextSignal ==
    \/ \E sig \in Signal : SigSend(sig)
    \/ SigDropSender
    \/ \E src, dst \in DOMAIN rx_pc : SigClone(src, dst)
    \/ \E r \in DOMAIN rx_pc : SigReceive(r)
    \/ \E r \in DOMAIN rx_pc : SigChanged(r)
    \/ \E r \in DOMAIN rx_pc : SigBorrow(r)

\* ------------------------------------------------------ mode "waitfor"
InitWaitFor ==
    /\ mode = "waitfor"
    /\ NoUpstream
    /\ NoHostPair
    /\ NoHost
    /\ \E n \in 0..MaxTasks :
          /\ task_out = [i \in 1..n |-> Running]
          /\ input = [i \in 1..n |-> i]
          /\ future_states = AsFutureStatesVec([i \in 1..n |-> i])
    /\ strategy \in Strategy
    /\ wf_state = "live"
    /\ handed = <<>>
    /\ origin = [strategy |-> "none", how |-> "fresh"]
    /\ last_op = "init"
    /\ last_polled = {}
    /\ instances = 1
    /\ SignalerInit({})
    /\ rx_pc = <<>>
    /\ NoServe

\* The future of task i completes with output v.
Complete(i, v) ==
    /\ mode = "waitfor"
    /\ task_out[i] = Running
    /\ task_out' = [task_out EXCEPT ![i] = v]
    /\ last_op' = "complete"
    /\ UNCHANGED <<mode, eqVars, upVars, hostVars, strategy, future_states, wf_state, handed, input,
                   origin, last_polled, instances>>
    /\ UNCHANGED <<sigVars, srvVars>>

\* WaitFor::poll, the effect on the combinator's own fields.
PollEffect ==
    LET states == PollStates(future_states, task_out) IN
    /\ last_polled' = PolledPositions(future_states)
    /\ last_op' = "poll"
    /\ IF Resolves(strategy, states)
       THEN /\ handed' = states
            /\ future_states' = <<>>
            /\ wf_state' = "resolved"
       ELSE /\ future_states' = states
            /\ UNCHANGED <<handed, wf_state>>

\* The caller polls a live combinator.
Poll ==
    /\ mode = "waitfor"
    /\ wf_state = "live"
    /\ PollEffect
    /\ UNCHANGED <<mode, eqVars, upVars, hostVars, task_out, strategy, input, origin, instances>>
    /\ UNCHANGED <<sigVars, srvVars>>

\* Mutant of CeaseEffect: only the unfinished tasks are given back.
CeaseEffectPendingOnly ==
    /\ handed' = SelectSeq(future_states, IsPending)
    /\ wf_state' = "ceased"
    /\ last_op' = "cease"
    /\ UNCHANGED <<future_states, strategy, last_polled>>

\* WaitFor::cease: the instance is consumed and its Vec returned.
CeaseEffect ==
    /\ handed' = future_states
    /\ wf_state' = "ceased"
    /\ last_op' = "cease"
    /\ UNCHANGED <<future_states, strategy, last_polled>>

Cease ==
    /\ mode = "waitfor"
    /\ wf_state \in {"live", "resolved"}
    /\ CeaseEffect
    /\ UNCHANGED <<mode, eqVars, upVars, hostVars, task_out, input, origin, instances>>
    /\ UNCHANGED <<sigVars, srvVars>>

\* wait_for(handed, s): a new instance over the Vec the last one gave back.
WaitForEffect(s) ==
    /\ input' = handed
    /\ origin' = [strategy |-> strategy, how |-> wf_state]
    /\ future_states' = AsFutureStatesStates(handed)
    /\ strategy' = s
    /\ wf_state' = "live"
    /\ last_op' = "wait_for"
    /\ last_polled' = {}
    /\ instances' = instances + 1
    /\ UNCHANGED handed

Resume(s) ==
    /\ mode = "waitfor"
    /\ wf_state \in {"resolved", "ceased"}
    /\ instances < MaxInstances
    /\ WaitForEffect(s)
    /\ UNCHANGED <<mode, eqVars, upVars, hostVars, task_out>>
    /\ UNCHANGED <<sigVars, srvVars>>

NextWaitFor ==
    \/ \E i \in DOMAIN task_out, v \in Outputs : Complete(i, v)
    \/ Poll
    \/ Cease
    \/ \E s \in Strategy : Resume(s)

\* -------------------------------------------------- main.rs: serve()
Proto == {"TCP", "UDP", "UNIX"}

\* The ServerError that the task at position k returned: the error, and
\* the task it came from (each bind error is a value of its own).
ServerError(results, k) == [err |-> results[k].res, task |-> k]

\* Mutant of CollectFrom: the errors are collected last task first.
RECURSIVE CollectFromReversed(_, _, _)
CollectFromReversed(results, k, errors) ==
    IF k > Len(results) THEN [fault |-> "none", errors |-> errors]
    ELSE IF IsPending(results[k])
         THEN [fault |-> "pending", errors |-> errors]
         ELSE IF results[k].res = "Ok"
              THEN CollectFromReversed(results, k + 1, errors)
              ELSE IF results[k].res = "BindError"
                   THEN CollectFromReversed(results, k + 1,
                            <<ServerError(results, k)>> \o errors)
                   ELSE [fault |-> "panicked", errors |-> errors]

\* Mutant of CollectFrom: a panicked task is reported like an ordinary
\* error, in the Err result.
RECURSIVE CollectFromAbsorbing(_, _, _)
CollectFromAbsorbing(results, k, errors) ==
    IF k > Len(results) THEN [fault |-> "none", errors |-> errors]
    ELSE IF IsPending(results[k])
         THEN [fault |-> "pending", errors |-> errors]
         ELSE IF results[k].res = "Ok"
              THEN CollectFromAbsorbing(results, k + 1, errors)
              ELSE CollectFromAbsorbing(results, k + 1,
                                        Append(errors, ServerError(results, k)))

\* The for loop over the result of wait_for_all, from entry k on: the
\* errors pushed so far, and the fault that ends the loop if one does.
RECURSIVE CollectFrom(_, _, _)
CollectFrom(results, k, errors) ==
    IF k > Len(results) THEN [fault |-> "none", errors |-> errors]
    ELSE IF IsPending(results[k])
         THEN [fault |-> "pending", errors |-> errors]
         ELSE IF results[k].res = "Ok"
              THEN CollectFrom(results, k + 1, errors)
              ELSE IF results[k].res = "BindError"
                   THEN CollectFrom(results, k + 1,
                                    Append(errors, ServerError(results, k)))
                   ELSE [fault |-> "panicked", errors |-> errors]

\* What serve() ends with after the loop.
ServeOutcome(results) ==
    LET c == CollectFrom(results, 1, <<>>) IN
    IF c.fault = "panicked"
    THEN [kind |-> "panic", msg |-> "server task panicked"]
    ELSE IF c.fault = "pending"
         THEN [kind |-> "panic", msg |-> "server task is not supposed to be pending"]
         ELSE IF c.errors = <<>>
              THEN [kind |-> "Ok"]
              ELSE [kind |-> "Err", errors |-> c.errors]

\* serve() up to and including wait_for_any(srv_handles): the channel is
\* made, every server has a clone of the receiver (receiver 0 is the
\* original, kept by serve) and is spawned.
InitServe ==
    /\ mode = "serve"
    /\ NoUpstream
    /\ NoHostPair
    /\ NoHost
    /\ \E n \in 0..MaxServers :
          /\ kinds \in [1..n -> Proto]
          /\ task_out = [i \in 1..n |-> Running]
          /\ srv_pc = [i \in 1..n |-> "start"]
          /\ accepted = [i \in 1..n |-> 0]
          /\ started_late = [i \in 1..n |-> FALSE]
          /\ input = [i \in 1..n |-> i]
          /\ future_states = AsFutureStatesVec([i \in 1..n |-> i])
          /\ SignalerInit(0..n)
          /\ rx_pc = [r \in 0..n |-> "idle"]
    /\ strategy = "Any"
    /\ wf_state = "live"
    /\ handed = <<>>
    /\ origin = [strategy |-> "none", how |-> "fresh"]
    /\ last_op = "init"
    /\ last_polled = {}
    /\ instances = 1
    /\ serve_pc = "select"
    /\ ctrl_c = "none"
    /\ serve_result = [kind |-> "none"]

\* The process gets SIGINT (res = "Ok"), or the handler cannot be
\* registered (res = "Err").
CtrlC(res) ==
    /\ mode = "serve"
    /\ serve_pc = "select"
    /\ ctrl_c = "none"
    /\ ctrl_c' = res
    /\ UNCHANGED <<mode, eqVars, upVars, hostVars, wfVars, sigVars, serve_pc, kinds, srv_pc, accepted,
                   started_late, serve_result>>

\* select!, first branch: ctrl_c() returned Ok; Stop is sent and the
\* watchdog ceased.
ServeCtrlC ==
    /\ mode = "serve"
    /\ serve_pc = "select"
    /\ ctrl_c = "Ok"
    /\ SendEffect("Stop")
    /\ CeaseEffect
    /\ serve_pc' = "join"
    /\ UNCHANGED <<mode, eqVars, upVars, hostVars, task_out, input, origin, instances>>
    /\ UNCHANGED <<sender_alive, rx_version, rx_pc, rx_got>>
    /\ UNCHANGED <<ctrl_c, kinds, srv_pc, accepted, started_late,
                   serve_result>>

\* select!, first branch: res.unwrap() on an Err panics; unwinding drops
\* the Sender.
ServeCtrlCUnwrap ==
    /\ mode = "serve"
    /\ serve_pc = "select"
    /\ ctrl_c = "Err"
    /\ serve_pc' = "panicked"
    /\ serve_result' = [kind |-> "panic", msg |-> "ctrl_c"]
    /\ sender_alive' = FALSE
    /\ UNCHANGED <<mode, eqVars, upVars, hostVars, wfVars, ctrl_c, kinds, srv_pc, accepted,
                   started_late>>
    /\ UNCHANGED <<sig_value, sig_version, rx_version, rx_pc, rx_got,
                   rx_fresh, sends, last_sent>>

\* select!, second branch: the watchdog (strategy Any) is polled.
ServePollAny ==
    /\ mode = "serve"
    /\ serve_pc = "select"
    /\ PollEffect
    /\ serve_pc' = IF wf_state' = "resolved" THEN "stop" ELSE "select"
    /\ UNCHANGED <<mode, eqVars, upVars, hostVars, task_out, strategy, input, origin, instances>>
    /\ UNCHANGED <<sigVars, ctrl_c, kinds, srv_pc, accepted, started_late,
                   serve_result>>

\* Mutant of ServeStop: the branch goes on without sending Stop.
ServeStopSkipped ==
    /\ mode = "serve"
    /\ serve_pc = "stop"
    /\ serve_pc' = "join"
    /\ UNCHANGED <<mode, eqVars, upVars, hostVars, wfVars, sigVars>>
    /\ UNCHANGED <<ctrl_c, kinds, srv_pc, accepted, started_late,
                   serve_result>>

\* select!, second branch, its body: sig_sender.send(Signal::Stop).
ServeStop ==
    /\ mode = "serve"
    /\ serve_pc = "stop"
    /\ SendEffect("Stop")
    /\ serve_pc' = "join"
    /\ UNCHANGED <<mode, eqVars, upVars, hostVars, wfVars>>
    /\ UNCHANGED <<sender_alive, rx_version, rx_pc, rx_got>>
    /\ UNCHANGED <<ctrl_c, kinds, srv_pc, accepted, started_late,
                   serve_result>>

\* utils::wait_for_all(srv_results).
ServeWaitForAll ==
    /\ mode = "serve"
    /\ serve_pc = "join"
    /\ WaitForEffect("All")
    /\ serve_pc' = "wait_all"
    /\ UNCHANGED <<mode, eqVars, upVars, hostVars, task_out>>
    /\ UNCHANGED <<sigVars, ctrl_c, kinds, srv_pc, accepted, started_late,
                   serve_result>>

\* .await of wait_for_all: one poll of the combinator (strategy All).
ServePollAll ==
    /\ mode = "serve"
    /\ serve_pc = "wait_all"
    /\ PollEffect
    /\ serve_pc' = IF wf_state' = "resolved" THEN "collect" ELSE "wait_all"
    /\ UNCHANGED <<mode, eqVars, upVars, hostVars, task_out, strategy, input, origin, instances>>
    /\ UNCHANGED <<sigVars, ctrl_c, kinds, srv_pc, accepted, started_late,
                   serve_result>>

\* The for loop over the results and the return; serve's locals, the
\* Sender among them, are dropped.
ServeCollect ==
    /\ mode = "serve"
    /\ serve_pc = "collect"
    /\ serve_result' = ServeOutcome(handed)
    /\ serve_pc' = IF serve_result'.kind = "panic"
                   THEN "panicked" ELSE "returned"
    /\ sender_alive' = FALSE
    /\ UNCHANGED <<mode, eqVars, upVars, hostVars, wfVars, ctrl_c, kinds, srv_pc, accepted,
                   started_late>>
    /\ UNCHANGED <<sig_value, sig_version, rx_version, rx_pc, rx_got,
                   rx_fresh, sends, last_sent>>

\* ------------------------------------------------- server/: listeners
\* The spawned task of listener i ends: its JoinHandle yields `res`.
FinishEffect(i, res) ==
    /\ task_out' = [task_out EXCEPT ![i] = res]
    /\ srv_pc' = [srv_pc EXCEPT ![i] = "done"]

\* TCPServer::start up to the loop: bind, then the first select! polls
\* receive(). A failed bind returns Err(BindError).
TCPStart(i, bound) ==
    /\ mode = "serve"
    /\ kinds[i] = "TCP"
    /\ srv_pc[i] = "start"
    /\ IF bound
       THEN /\ srv_pc' = [srv_pc EXCEPT ![i] = "loop"]
            /\ ReceiveCallEffect(i)
            /\ started_late' = [started_late EXCEPT ![i] = sends > 0]
            /\ UNCHANGED task_out
       ELSE /\ FinishEffect(i, "BindError")
            /\ UNCHANGED <<rx_pc, started_late>>
    /\ UNCHANGED <<mode, eqVars, upVars, hostVars, strategy, future_states, wf_state, handed, input,
                   origin, last_op, last_polled, instances>>
    /\ UNCHANGED <<sig_value, sig_version, sender_alive, rx_version, rx_got,
                   rx_fresh, sends, last_sent>>
    /\ UNCHANGED <<serve_pc, ctrl_c, kinds, accepted, serve_result>>

\* UDPServer::start up to the loop: bind(address).await.unwrap() panics
\* when the bind fails.
UDPStart(i, bound) ==
    /\ mode = "serve"
    /\ kinds[i] = "UDP"
    /\ srv_pc[i] = "start"
    /\ IF bound
       THEN /\ srv_pc' = [srv_pc EXCEPT ![i] = "loop"]
            /\ ReceiveCallEffect(i)
            /\ started_late' = [started_late EXCEPT ![i] = sends > 0]
            /\ UNCHANGED task_out
       ELSE /\ FinishEffect(i, "Panic")
            /\ UNCHANGED <<rx_pc, started_late>>
    /\ UNCHANGED <<mode, eqVars, upVars, hostVars, strategy, future_states, wf_state, handed, input,
                   origin, last_op, last_polled, instances>>
    /\ UNCHANGED <<sig_value, sig_version, sender_alive, rx_version, rx_got,
                   rx_fresh, sends, last_sent>>
    /\ UNCHANGED <<serve_pc, ctrl_c, kinds, accepted, serve_result>>

\* UnixServer::start: unimplemented!() panics at once.
UnixStart(i) ==
    /\ mode = "serve"
    /\ kinds[i] = "UNIX"
    /\ srv_pc[i] = "start"
    /\ FinishEffect(i, "Panic")
    /\ UNCHANGED <<mode, eqVars, upVars, hostVars, strategy, future_states, wf_state, handed, input,
                   origin, last_op, last_polled, instances>>
    /\ UNCHANGED <<sigVars, serve_pc, ctrl_c, kinds, accepted, started_late,
                   serve_result>>

\* TCP select!, second branch: listener.accept() returned. An accepted
\* connection is handed to a task of its own; an error is logged. The loop
\* goes round and select! polls a new receive().
TCPAccept(i, ok) ==
    /\ mode = "serve"
    /\ kinds[i] = "TCP"
    /\ srv_pc[i] = "loop"
    /\ rx_pc[i] = "changed"
    /\ IF ok
       THEN /\ accepted[i] < MaxAccepts
            /\ accepted' = [accepted EXCEPT ![i] = accepted[i] + 1]
       ELSE UNCHANGED accepted
    /\ UNCHANGED <<mode, eqVars, upVars, hostVars, wfVars, sigVars>>
    /\ UNCHANGED <<serve_pc, ctrl_c, kinds, srv_pc, started_late,
                   serve_result>>

\* UDP select!, second branch: recv_from returned. result.unwrap() panics
\* on an error, and handle_connection(..).await is unimplemented!(), which
\* panics in the listener's own task.
UDPRecvFrom(i, ok) ==
    /\ mode = "serve"
    /\ kinds[i] = "UDP"
    /\ srv_pc[i] = "loop"
    /\ rx_pc[i] = "changed"
    /\ FinishEffect(i, "Panic")
    /\ UNCHANGED <<mode, eqVars, upVars, hostVars, strategy, future_states, wf_state, handed, input,
                   origin, last_op, last_polled, instances>>
    /\ UNCHANGED <<sigVars, serve_pc, ctrl_c, kinds, accepted, started_late,
                   serve_result>>

\* select!, first branch, TCP and UDP alike: changed() inside receive()
\* returns.
ListenerChanged(i) ==
    /\ mode = "serve"
    /\ srv_pc[i] = "loop"
    /\ rx_pc[i] = "changed"
    /\ ChangedReady(i)
    /\ ChangedEffect(i)
    /\ UNCHANGED <<mode, eqVars, upVars, hostVars, wfVars, srvVars>>
    /\ UNCHANGED <<sig_value, sig_version, sender_alive, rx_got, rx_fresh, sends, last_sent>>

\* Mutant of SignalArm: the two arms of the match are swapped.
SignalArmSwapped(sig) == IF sig = "Stop" THEN "Panic" ELSE "Ok"

\* Mutant of SignalArm: every signal ends the loop like Stop.
SignalArmAlwaysOk(sig) == "Ok"

\* The match on the received signal: Stop breaks out of the loop and start
\* returns Ok(()); any other signal is unimplemented!(), a panic.
SignalArm(sig) == IF sig = "Stop" THEN "Ok" ELSE "Panic"

\* select!, first branch, TCP and UDP alike: receive() returns the value
\* and the listener matches on it.
ListenerSignal(i) ==
    /\ mode = "serve"
    /\ srv_pc[i] = "loop"
    /\ rx_pc[i] = "borrow"
    /\ BorrowEffect(i)
    /\ rx_pc' = [rx_pc EXCEPT ![i] = "idle"]
    /\ FinishEffect(i, SignalArm(rx_got'[i]))
    /\ UNCHANGED <<mode, eqVars, upVars, hostVars, strategy, future_states, wf_state, handed, input,
                   origin, last_op, last_polled, instances>>
    /\ UNCHANGED <<sig_value, sig_version, sender_alive, rx_version, sends, last_sent>>
    /\ UNCHANGED <<serve_pc, ctrl_c, kinds, accepted, serve_result>>
    /\ UNCHANGED started_late

NextServe ==
    \/ \E res \in {"Ok", "Err"} : CtrlC(res)
    \/ ServeCtrlC
    \/ ServeCtrlCUnwrap
    \/ ServePollAny
    \/ ServeStop
    \/ ServeWaitForAll
    \/ ServePollAll
    \/ ServeCollect
    \/ \E i \in DOMAIN kinds, bound \in BOOLEAN : TCPStart(i, bound)
    \/ \E i \in DOMAIN kinds, bound \in BOOLEAN : UDPStart(i, bound)
    \/ \E i \in DOMAIN kinds : UnixStart(i)
    \/ \E i \in DOMAIN kinds, ok \in BOOLEAN : TCPAccept(i, ok)
    \/ \E i \in DOMAIN kinds, ok \in BOOLEAN : UDPRecvFrom(i, ok)
    \/ \E i \in DOMAIN kinds : ListenerChanged(i)
    \/ \E i \in DOMAIN kinds : ListenerSignal(i)

\* ------------------------------------------------------ specification
\* ------------------------------------------------ upstream/sampler.rs
Ok(val) == [tag |-> "Ok", val |-> val]
Err(err) == [tag |-> "Err", err |-> err]

\* ops::Range<usize>::next: yields start and advances while start < end.
RangeNext(range) ==
    IF range.start < range.end
    THEN [some |-> TRUE, item |-> range.start,
          iter |-> [range EXCEPT !.start = @ + 1]]
    ELSE [some |-> FALSE, item |-> 0, iter |-> range]

\* Mutant of CycleNext: the exhausted cycle restarts one item late.
CycleNextSkipping(cycle) ==
    LET first == RangeNext(cycle.iter) IN
    IF first.some
    THEN [some |-> TRUE, item |-> first.item,
          cycle |-> [cycle EXCEPT !.iter = first.iter]]
    ELSE LET again == RangeNext(RangeNext(cycle.orig).iter) IN
         [some |-> again.some, item |-> again.item,
          cycle |-> [cycle EXCEPT !.iter = again.iter]]

\* iter::Cycle::next: the inner iterator's next item; when it is exhausted
\* the inner iterator is replaced by a clone of the original and asked again.
CycleNext(cycle) ==
    LET first == RangeNext(cycle.iter) IN
    IF first.some
    THEN [some |-> TRUE, item |-> first.item,
          cycle |-> [cycle EXCEPT !.iter = first.iter]]
    ELSE LET again == RangeNext(cycle.orig) IN
         [some |-> again.some, item |-> again.item,
          cycle |-> [cycle EXCEPT !.iter = again.iter]]

\* Mutant of RoundRobinSamplerNew: a zero length is accepted.
RoundRobinSamplerNewLenient(length) ==
    Ok([kind |-> "RoundRobin",
        iter |-> [orig |-> [start |-> 0, end |-> length],
                  iter |-> [start |-> 0, end |-> length]]])

\* RoundRobinSampler::new.
RoundRobinSamplerNew(length) ==
    IF length = 0
    THEN Err("ZeroLength")
    ELSE Ok([kind |-> "RoundRobin",
             iter |-> [orig |-> [start |-> 0, end |-> length],
                       iter |-> [start |-> 0, end |-> length]]])

\* The sum of the first k weights.
RECURSIVE SumTo(_, _)
SumTo(weights, k) ==
    IF k = 0 THEN 0 ELSE SumTo(weights, k - 1) + weights[k]

\* WeightedIndex::new: NoItem for an empty list, AllWeightsZero for a zero
\* total (a usize weight is never negative); otherwise the running totals
\* of all weights but the last, and the total.
WeightedIndexNew(weights) ==
    IF Len(weights) = 0
    THEN Err("NoItem")
    ELSE IF SumTo(weights, Len(weights)) = 0
    THEN Err("AllWeightsZero")
    ELSE Ok([cumulative_weights |->
                 [i \in 1..(Len(weights) - 1) |-> SumTo(weights, i)],
             total_weight |-> SumTo(weights, Len(weights))])

\* WeightedSampler::new: the error of WeightedIndex::new is passed on by `?`.
WeightedSamplerNew(weights) ==
    LET dist == WeightedIndexNew(weights) IN
    IF dist.tag = "Err"
    THEN dist
    ELSE Ok([kind |-> "Weighted", dist |-> dist.val])

\* Mutant of WeightedIndexSample: a running total equal to the drawn
\* weight no longer counts as passed.
WeightedIndexSampleStrict(dist, chosen_weight) ==
    Cardinality({i \in 1..Len(dist.cumulative_weights) :
                    dist.cumulative_weights[i] < chosen_weight})

\* WeightedIndex::sample for a drawn chosen_weight in [0, total_weight): the
\* binary search finds the first running total above the drawn weight,
\* which is the number of running totals not above it.
WeightedIndexSample(dist, chosen_weight) ==
    Cardinality({i \in 1..Len(dist.cumulative_weights) :
                    dist.cumulative_weights[i] <= chosen_weight})

\* The number of candidates a sampler was built over.
SamplerLength(s) ==
    IF s.kind = "RoundRobin"
    THEN s.iter.orig.end
    ELSE Len(s.dist.cumulative_weights) + 1

\* Sampler::sample of either variant, for the weight the generator draws:
\* the index returned (or the panic of unwrap) and the sampler afterwards.
Sample(s, chosen_weight) ==
    IF s.kind = "RoundRobin"
    THEN LET step == CycleNext(s.iter) IN
         [fault |-> IF step.some THEN "none" ELSE "unwrap on None",
          index |-> step.item,
          sampler |-> [s EXCEPT !.iter = step.cycle]]
    ELSE [fault |-> "none",
          index |-> WeightedIndexSample(s.dist, chosen_weight),
          sampler |-> s]

\* The weights the generator can draw for a sampler.
ChosenWeights(s) ==
    IF s.kind = "RoundRobin" THEN {0} ELSE 0..(s.dist.total_weight - 1)

\* ---------------------------------------- upstream/mod.rs, main.rs init
\* Ports of the configured hosts.
Ports == {8080, 8081}

\* Option<u8>: {} is None, {w} is Some(w).
OptWeights == {{}} \cup {{w} : w \in 0..MaxWeight}

\* Option::unwrap_or.
UnwrapOr(opt, default) == IF opt = {} THEN default ELSE CHOOSE w \in opt : TRUE

\* config::Host, as far as init() reads it.
HostConfs == [port : Ports, weight : OptWeights]

\* config::Upstream: the host list, and whether its resolver is configured.
UpstreamConfs ==
    [hosts : UNION {[1..n -> HostConfs] : n \in 0..MaxHosts},
     resolver : BOOLEAN]

\* Host::builder(..).with_weight(..).build().
Host(port, weight) == [port |-> port, weight |-> weight]

ConfigError(msg) == [kind |-> "ConfigError", msg |-> msg]

\* Mutant of UpstreamFromConf: the empty host list is not rejected and the
\* sampler is built over one candidate more than there are hosts.
UpstreamFromConfUnchecked(conf) ==
    LET n == Len(conf.hosts)
        hosts == [i \in 1..n |->
                     Host(conf.hosts[i].port, UnwrapOr(conf.hosts[i].weight, 1))]
    IN [tag |-> "Ok", hosts |-> hosts, sampler |-> RoundRobinSamplerNew(n + 1)]

\* Mutant of UpstreamFromConf: round robin is chosen as soon as one host
\* has no explicit weight.
UpstreamFromConfAnyNone(conf) ==
    LET n == Len(conf.hosts)
        hosts == [i \in 1..n |->
                     Host(conf.hosts[i].port, UnwrapOr(conf.hosts[i].weight, 1))]
        new == IF \E i \in 1..n : conf.hosts[i].weight = {}
               THEN RoundRobinSamplerNew(n)
               ELSE WeightedSamplerNew(
                        [i \in 1..n |-> UnwrapOr(conf.hosts[i].weight, 1)])
    IN IF ~conf.resolver
       THEN Err(ConfigError("resolver not found"))
       ELSE IF n = 0
       THEN Err(ConfigError("upstream host list is empty"))
       ELSE IF new.tag = "Err"
       THEN Err(ConfigError("upstream host weights are incorrect"))
       ELSE [tag |-> "Ok", hosts |-> hosts, sampler |-> new]

\* init(), the closure that builds one upstream: the hosts, the resolver
\* lookup, the empty-list check, then the sampler chosen by whether any
\* host has an explicit weight.
UpstreamFromConf(conf) ==
    LET n == Len(conf.hosts)
        hosts == [i \in 1..n |->
                     Host(conf.hosts[i].port, UnwrapOr(conf.hosts[i].weight, 1))]
        new == IF \A i \in 1..n : conf.hosts[i].weight = {}
               THEN RoundRobinSamplerNew(n)
               ELSE WeightedSamplerNew(
                        [i \in 1..n |-> UnwrapOr(conf.hosts[i].weight, 1)])
    IN IF ~conf.resolver
       THEN Err(ConfigError("resolver not found"))
       ELSE IF n = 0
       THEN Err(ConfigError("upstream host list is empty"))
       ELSE IF new.tag = "Err"
       THEN Err(ConfigError("upstream host weights are incorrect"))
       ELSE [tag |-> "Ok", hosts |-> hosts, sampler |-> new]

\* Resolver::resolve: unimplemented!(), for every hostname.
ResolverResolve(hostname) == [tag |-> "Panic", msg |-> "not implemented"]

\* UpstreamImpl::resolve: always the loopback address.
Resolve(hostname) == "127.0.0.1"

\* Mutant of NextAddr: the sampled index is used one-based.
NextAddrOneBased(hosts, index) ==
    IF index \in 1..Len(hosts)
    THEN [some |-> TRUE,
          addr |-> [ip |-> Resolve("hostname"), port |-> hosts[index].port]]
    ELSE [some |-> FALSE, addr |-> [ip |-> "none", port |-> 0]]

\* UpstreamImpl::next after sampling: hosts.get(index) and the address of
\* the host found; none when the index is out of range.
NextAddr(hosts, index) ==
    IF index + 1 \in 1..Len(hosts)
    THEN [some |-> TRUE,
          addr |-> [ip |-> Resolve("hostname"), port |-> hosts[index + 1].port]]
    ELSE [some |-> FALSE, addr |-> [ip |-> "none", port |-> 0]]

\* How many more calls of sample() a behaviour makes on this sampler.
MayDraw(s) ==
    Len(samples) < (IF s.kind = "RoundRobin" THEN MaxSamples ELSE MaxDraws)

\* ----------------------------------------------------- mode "upstream"
InitUpstream ==
    /\ mode = "upstream"
    /\ NoUpstream
    /\ NoHostPair
    /\ NoHost
    /\ NoWaitFor
    /\ NoSignal
    /\ NoServe

\* The weight lists a caller may hand to WeightedSampler::new.
WeightLists == UNION {[1..n -> 0..MaxWeight] : n \in 0..MaxLength}

\* The host lists a caller may hand to UpstreamImpl::new.
HostLists ==
    UNION {[1..n -> [port : Ports, weight : 1..MaxWeight]] : n \in 1..MaxHosts}

\* RoundRobinSampler::new(length), called directly.
NewRoundRobinSampler ==
    /\ mode = "upstream"
    /\ ctor.kind = "none"
    /\ \E length \in 0..MaxLength :
          /\ ctor' = [kind |-> "RoundRobin", length |-> length]
          /\ sampler' = RoundRobinSamplerNew(length)
    /\ UNCHANGED <<mode, eqVars, samples, upstream, addrs, up_fault>>
    /\ UNCHANGED <<wfVars, sigVars, srvVars, hostVars>>

\* WeightedSampler::new(weights), called directly.
NewWeightedSampler ==
    /\ mode = "upstream"
    /\ ctor.kind = "none"
    /\ \E weights \in WeightLists :
          /\ ctor' = [kind |-> "Weighted", weights |-> weights]
          /\ sampler' = WeightedSamplerNew(weights)
    /\ UNCHANGED <<mode, eqVars, samples, upstream, addrs, up_fault>>
    /\ UNCHANGED <<wfVars, sigVars, srvVars, hostVars>>

\* Sampler::sample on a sampler that was built directly.
SamplerSample ==
    /\ mode = "upstream"
    /\ upstream.tag = "none"
    /\ sampler.tag = "Ok"
    /\ up_fault = "none"
    /\ MayDraw(sampler.val)
    /\ \E chosen_weight \in ChosenWeights(sampler.val) :
          LET res == Sample(sampler.val, chosen_weight) IN
          IF res.fault = "none"
          THEN /\ samples' = Append(samples, res.index)
               /\ sampler' = Ok(res.sampler)
               /\ UNCHANGED up_fault
          ELSE /\ up_fault' = res.fault
               /\ UNCHANGED <<samples, sampler>>
    /\ UNCHANGED <<mode, eqVars, upstream, addrs, ctor>>
    /\ UNCHANGED <<wfVars, sigVars, srvVars, hostVars>>

\* init() builds the upstream of one configured group.
InitUpstreamFromConf ==
    /\ mode = "upstream"
    /\ ctor.kind = "none"
    /\ \E conf \in UpstreamConfs :
          LET res == UpstreamFromConf(conf) IN
          /\ ctor' = [kind |-> "init", conf |-> conf]
          /\ IF res.tag = "Ok"
             THEN /\ upstream' = [tag |-> "Ok", hosts |-> res.hosts]
                  /\ sampler' = res.sampler
             ELSE /\ upstream' = res
                  /\ UNCHANGED sampler
    /\ UNCHANGED <<mode, eqVars, samples, addrs, up_fault>>
    /\ UNCHANGED <<wfVars, sigVars, srvVars, hostVars>>

\* UpstreamImpl::new(hosts, resolver, RoundRobinSampler::new(length).unwrap()),
\* called directly as the crate's test does; the length is the caller's.
UpstreamImplNew ==
    /\ mode = "upstream"
    /\ ctor.kind = "none"
    /\ \E hosts \in HostLists, length \in 1..MaxLength :
          /\ ctor' = [kind |-> "new", hosts |-> hosts, length |-> length]
          /\ upstream' = [tag |-> "Ok", hosts |-> hosts]
          /\ sampler' = RoundRobinSamplerNew(length)
    /\ UNCHANGED <<mode, eqVars, samples, addrs, up_fault>>
    /\ UNCHANGED <<wfVars, sigVars, srvVars, hostVars>>

\* UpstreamImpl::next: sample an index, look the host up, resolve it.
UpstreamNext ==
    /\ mode = "upstream"
    /\ upstream.tag = "Ok"
    /\ sampler.tag = "Ok"
    /\ up_fault = "none"
    /\ MayDraw(sampler.val)
    /\ \E chosen_weight \in ChosenWeights(sampler.val) :
          LET res == Sample(sampler.val, chosen_weight)
              host == NextAddr(upstream.hosts, res.index)
          IN IF res.fault /= "none"
             THEN /\ up_fault' = res.fault
                  /\ UNCHANGED <<samples, sampler, addrs>>
             ELSE /\ samples' = Append(samples, res.index)
                  /\ sampler' = Ok(res.sampler)
                  /\ IF host.some
                     THEN /\ addrs' = Append(addrs, host.addr)
                          /\ UNCHANGED up_fault
                     ELSE /\ up_fault' = "sample index out of range"
                          /\ UNCHANGED addrs
    /\ UNCHANGED <<mode, eqVars, upstream, ctor>>
    /\ UNCHANGED <<wfVars, sigVars, srvVars, hostVars>>

NextUpstream ==
    \/ NewRoundRobinSampler
    \/ NewWeightedSampler
    \/ SamplerSample
    \/ InitUpstreamFromConf
    \/ UpstreamImplNew
    \/ UpstreamNext

\* ------------------------------------------------ upstream/mod.rs: Host
\* BinaryHeap<Reverse<Instant>>::push: the heap as a sorted sequence, its
\* least element first.
RECURSIVE HeapPush(_, _)
HeapPush(heap, item) ==
    IF heap = <<>> \/ item <= Head(heap)
    THEN <<item>> \o heap
    ELSE <<Head(heap)>> \o HeapPush(Tail(heap), item)

\* Mutant of Prune: the oldest failure is popped only when it lies at least
\* twice the timeout back.
RECURSIVE PruneLate(_, _, _)
PruneLate(heap, at, timeout) ==
    IF heap = <<>> \/ Head(heap) >= at - 2 * timeout
    THEN heap
    ELSE PruneLate(Tail(heap), at, timeout)

\* Mutant of Prune: an `if` for the `while`, at most one failure is popped.
PruneOne(heap, at, timeout) ==
    IF heap = <<>> \/ Head(heap) >= at - timeout
    THEN heap
    ELSE Tail(heap)

\* Mutant of Prune: a failure exactly the timeout back is popped too.
RECURSIVE PruneStrict(_, _, _)
PruneStrict(heap, at, timeout) ==
    IF heap = <<>> \/ Head(heap) > at - timeout
    THEN heap
    ELSE PruneStrict(Tail(heap), at, timeout)

\* Host::failed, the while loop: peek the oldest failure, stop when it is
\* not older than at - timeout, pop it otherwise. (Instants are integers
\* here; the subtraction stays within what an Instant represents.)
RECURSIVE Prune(_, _, _)
Prune(heap, at, timeout) ==
    IF heap = <<>> \/ Head(heap) >= at - timeout
    THEN heap
    ELSE Prune(Tail(heap), at, timeout)

\* --------------------------------------------------------- mode "host"
\* Host::new: an empty failure window, last_fail the instant of creation.
InitHost ==
    /\ mode = "host"
    /\ now = 0
    /\ fail_timeout \in 0..MaxTimeout
    /\ fails = <<>>
    /\ last_fail = now
    /\ calls = <<>>
    /\ NoUpstream
    /\ NoHostPair
    /\ NoWaitFor
    /\ NoSignal
    /\ NoServe

\* Time passes.
Tick ==
    /\ mode = "host"
    /\ now < MaxTime
    /\ now' = now + 1
    /\ UNCHANGED <<mode, eqVars, fail_timeout, fails, last_fail, calls>>
    /\ UNCHANGED <<wfVars, sigVars, srvVars, upVars>>

\* Host::failed.
Failed ==
    /\ mode = "host"
    /\ Len(calls) < MaxCalls
    /\ fails' = HeapPush(Prune(fails, now, fail_timeout), now)
    /\ last_fail' = now
    /\ calls' = Append(calls, now)
    /\ UNCHANGED <<mode, eqVars, now, fail_timeout>>
    /\ UNCHANGED <<wfVars, sigVars, srvVars, upVars>>

NextHost ==
    \/ Tick
    \/ Failed

\* ------------------------------------- upstream/mod.rs: Host, PartialEq
\* The fields of Host that come from the configuration.
StaticFields ==
    {"hostname", "port", "ipv6", "weight", "max_fails", "max_conns",
     "fail_timeout"}

\* Host::builder(..).with_*(..).build() for a configured fail_timeout: a
\* Host that has not failed yet.
BuiltHost(timeout) ==
    [hostname |-> "localhost", port |-> 8080, ipv6 |-> FALSE, weight |-> 1,
     max_fails |-> 1, max_conns |-> 1024, fail_timeout |-> timeout,
     fails |-> <<>>, last_fail |-> 0]

\* A Host configured like `host` except in the fields of `diff`.
Altered(host, diff) ==
    [hostname |-> IF "hostname" \in diff THEN "backend" ELSE host.hostname,
     port |-> IF "port" \in diff THEN 8081 ELSE host.port,
     ipv6 |-> IF "ipv6" \in diff THEN ~host.ipv6 ELSE host.ipv6,
     weight |-> IF "weight" \in diff THEN host.weight + 1 ELSE host.weight,
     max_fails |-> IF "max_fails" \in diff
                   THEN host.max_fails + 1 ELSE host.max_fails,
     max_conns |-> IF "max_conns" \in diff THEN 512 ELSE host.max_conns,
     fail_timeout |-> IF "fail_timeout" \in diff
                      THEN host.fail_timeout + 1 ELSE host.fail_timeout,
     fails |-> host.fails,
     last_fail |-> host.last_fail]

\* Mutant of HostEq: the time of the last failure is compared too.
HostEqWithLastFail(self, other) ==
    /\ self.hostname = other.hostname
    /\ self.port = other.port
    /\ self.weight = other.weight
    /\ self.max_fails = other.max_fails
    /\ self.fail_timeout = other.fail_timeout
    /\ self.last_fail = other.last_fail

\* impl PartialEq for Host: eq.
HostEq(self, other) ==
    /\ self.hostname = other.hostname
    /\ self.port = other.port
    /\ self.weight = other.weight
    /\ self.max_fails = other.max_fails
    /\ self.fail_timeout = other.fail_timeout

\* Host::failed on a Host with all its fields, at the instant `at`.
HostFailed(host, at) ==
    [host EXCEPT !.fails = HeapPush(Prune(host.fails, at, host.fail_timeout), at),
                 !.last_fail = at]

\* ------------------------------------------------------- mode "hosteq"
InitHostEq ==
    /\ mode = "hosteq"
    /\ \E timeout \in 0..MaxTimeout,
          diff \in {d \in SUBSET StaticFields : Cardinality(d) <= MaxDiff} :
          host_pair = <<BuiltHost(timeout), Altered(BuiltHost(timeout), diff)>>
    /\ eq_result = "none"
    /\ NoUpstream
    /\ NoHost
    /\ NoWaitFor
    /\ NoSignal
    /\ NoServe

\* Time passes.
EqTick ==
    /\ mode = "hosteq"
    /\ now < MaxEqTime
    /\ now' = now + 1
    /\ UNCHANGED <<mode, eqVars, fail_timeout, fails, last_fail, calls>>
    /\ UNCHANGED <<wfVars, sigVars, srvVars, upVars>>

\* Host::failed on one of the two Hosts.
EqFailed(k) ==
    /\ mode = "hosteq"
    /\ Len(host_pair[1].fails) + Len(host_pair[2].fails) < MaxEqCalls
    /\ host_pair' = [host_pair EXCEPT ![k] = HostFailed(@, now)]
    /\ UNCHANGED <<mode, eq_result, hostVars>>
    /\ UNCHANGED <<wfVars, sigVars, srvVars, upVars>>

\* host_pair[1] == host_pair[2].
EqCompare ==
    /\ mode = "hosteq"
    /\ eq_result' = IF HostEq(host_pair[1], host_pair[2])
                    THEN "true" ELSE "false"
    /\ UNCHANGED <<mode, host_pair, hostVars>>
    /\ UNCHANGED <<wfVars, sigVars, srvVars, upVars>>

NextHostEq ==
    \/ EqTick
    \/ \E k \in {1, 2} : EqFailed(k)
    \/ EqCompare

\* ---------------------------------------------------------- the system
Init ==
    \/ InitWaitFor
    \/ InitSignal
    \/ InitServe
    \/ InitUpstream
    \/ InitHost
    \/ InitHostEq

Next ==
    \/ NextWaitFor
    \/ NextSignal
    \/ NextServe
    \/ NextUpstream
    \/ NextHost
    \/ NextHostEq

Spec == Init /\ [][Next]_vars

\* ------------------------------------------------------------ claims
\* A step of WaitFor::poll on a live instance: the step that leaves a state
\* labelled "poll" and changes nothing outside the instance and the position
\* of its caller (every other operation changes one of the listed variables).
PollStep ==
    /\ wf_state = "live"
    /\ last_op' = "poll"
    /\ UNCHANGED <<task_out, instances, sigVars>>
    /\ UNCHANGED <<ctrl_c, kinds, srv_pc, accepted, started_late, serve_result>>

\* Task i has completed (its future yields its output when polled).
Completed(i) == task_out[i] /= Running

\* C1: a combinator with strategy Any over a non-empty sequence resolves on
\* a poll round exactly when some task is Ready at the end of that round,
\* and the value is the whole snapshot: same length, every completed task
\* Ready with its own result, every other task still Pending.
C1_AnyResolvesWithSnapshot ==
    [][ (PollStep /\ strategy = "Any" /\ Len(future_states) > 0) =>
          LET n == Len(future_states) IN
          /\ (wf_state' = "resolved") <=> (\E i \in 1..n : Completed(i))
          /\ (wf_state' = "resolved") =>
                /\ Len(handed') = n
                /\ \A i \in 1..n :
                      /\ Completed(i) => handed'[i] = Ready(task_out[i])
                      /\ ~Completed(i) => handed'[i] = Pending(i)
          /\ (wf_state' /= "resolved") =>
                /\ wf_state' = "live"
                /\ future_states' = future_states ]_vars

C1_Witness ==
    /\ strategy = "Any"
    /\ wf_state = "resolved"
    /\ last_op = "poll"
    /\ Len(handed) = 3
    /\ \E i, j \in 1..3 : IsReady(handed[i]) /\ IsPending(handed[j])

\* C2: a combinator with strategy All resolves on a poll round only when
\* every task is Ready at the end of that round; its value has no Pending
\* entry and holds each task's result at the task's position; so serve()
\* never ends in its "not supposed to be pending" branch.
C2_AllResolvesWhenAllReady ==
    [][ /\ (PollStep /\ strategy = "All") =>
              LET n == Len(future_states) IN
              /\ (wf_state' = "resolved") <=> (\A i \in 1..n : Completed(i))
              /\ (wf_state' = "resolved") =>
                    /\ Len(handed') = n
                    /\ \A i \in 1..n : handed'[i] = Ready(task_out[i])
              /\ (wf_state' /= "resolved") => wf_state' = "live"
        /\ serve_result' /=
              [kind |-> "panic",
               msg |-> "server task is not supposed to be pending"] ]_vars

C2_Witness ==
    /\ strategy = "All"
    /\ wf_state = "resolved"
    /\ last_op = "poll"
    /\ Len(handed) = 3
    /\ \E i, j \in 1..3 : handed[i].res /= handed[j].res

\* C3: the snapshot returned by wait_for_any, passed to wait_for_all, gives
\* once that resolves a result of the same length with every entry Ready:
\* an entry Ready in the snapshot keeps its result at its position, an entry
\* Pending in the snapshot holds the result of that same task.
C3_TwoPhaseResume ==
    (/\ origin = [strategy |-> "Any", how |-> "resolved"]
     /\ strategy = "All"
     /\ wf_state = "resolved") =>
        /\ Len(handed) = Len(input)
        /\ Len(handed) = Len(task_out)
        /\ \A i \in 1..Len(input) :
              /\ IsReady(handed[i])
              /\ IsReady(input[i]) => handed[i] = input[i]
              /\ IsPending(input[i]) =>
                    handed[i] = Ready(task_out[input[i].fut])

C3_Witness ==
    /\ origin = [strategy |-> "Any", how |-> "resolved"]
    /\ strategy = "All"
    /\ wf_state = "resolved"
    /\ Len(input) = 3
    /\ IsPending(input[1]) /\ IsPending(input[2]) /\ IsReady(input[3])
    /\ handed[1].res /= handed[3].res

\* C4: position i of the combinator's sequence, and of any snapshot it
\* returns, is the i-th input task: Pending as that task, or Ready with that
\* task's own result.
C4_PositionPreserved ==
    /\ \A i \in 1..Len(future_states) :
          \/ future_states[i] = Pending(i)
          \/ Completed(i) /\ future_states[i] = Ready(task_out[i])
    /\ \A i \in 1..Len(handed) :
          \/ handed[i] = Pending(i)
          \/ Completed(i) /\ handed[i] = Ready(task_out[i])

C4_Witness ==
    /\ last_op = "poll"
    /\ Len(handed) = 3
    /\ IsPending(handed[1]) /\ IsReady(handed[2]) /\ IsPending(handed[3])

ServeEnded == serve_pc \in {"returned", "panicked"}

\* The result of wait_for_all holds an abnormal termination.
AbnormalJoined ==
    /\ strategy = "All"
    /\ wf_state = "resolved"
    /\ \E i \in 1..Len(handed) : handed[i] = Ready("Panic")

\* C6: in serve(), Stop is sent at most once; it is sent only after ctrl_c
\* fired or after the watchdog found a server task Ready, never while all
\* tasks are Pending and no termination was requested; and it has been sent
\* exactly once when the wait-for-all phase starts.
C6_StopOnceAfterTrigger ==
    mode = "serve" =>
        /\ sends <= 1
        /\ sends = 1 =>
              /\ last_sent = "Stop"
              /\ sig_value = "Stop"
              /\ \/ ctrl_c = "Ok"
                 \/ \E i \in 1..Len(handed) :
                       IsReady(handed[i]) /\ Completed(i)
        /\ strategy = "All" => sends = 1
        /\ serve_pc \in {"join", "wait_all", "collect", "returned"} =>
              sends = 1

C6_Witness ==
    /\ mode = "serve"
    /\ serve_pc = "wait_all"
    /\ sends = 1
    /\ ctrl_c = "none"
    /\ \E i, j \in 1..Len(future_states) :
          IsReady(future_states[i]) /\ IsPending(future_states[j])

\* C7, as claimed: once a listener terminated abnormally and serve() has
\* ended, Stop was broadcast, every listener was awaited to completion and
\* serve() returned a failure result holding the abnormal terminations.
C7_AbnormalReturnedAsFailure ==
    (mode = "serve" /\ ServeEnded /\ AbnormalJoined) =>
        /\ sends = 1
        /\ \A i \in DOMAIN task_out : Completed(i)
        /\ serve_pc = "returned"
        /\ serve_result.kind = "Err"
        /\ Len(serve_result.errors) >=
              Cardinality({i \in DOMAIN task_out : task_out[i] = "Panic"})

\* C7, amended: once a listener terminated abnormally and serve() has ended
\* after its join, Stop was broadcast and every listener was awaited to
\* completion, and serve() ended in the panic "server task panicked": it
\* returns no result then, and the Err it can return holds ordinary bind
\* errors only.
C7_AbnormalEndsInPanic ==
    mode = "serve" =>
        /\ (ServeEnded /\ AbnormalJoined) =>
              /\ sends = 1 /\ last_sent = "Stop"
              /\ \A i \in DOMAIN task_out :
                    Completed(i) /\ handed[i] = Ready(task_out[i])
              /\ serve_pc = "panicked"
              /\ serve_result =
                    [kind |-> "panic", msg |-> "server task panicked"]
        /\ serve_pc = "returned" =>
              /\ \A i \in DOMAIN task_out :
                    task_out[i] \in {"Ok", "BindError"}
              /\ serve_result.kind \in {"Ok", "Err"}
              /\ serve_result.kind = "Err" =>
                    \A k \in 1..Len(serve_result.errors) :
                       serve_result.errors[k].err = "BindError"

C7_Witness ==
    /\ mode = "serve"
    /\ serve_pc = "panicked"
    /\ serve_result = [kind |-> "panic", msg |-> "server task panicked"]
    /\ \E i, j \in DOMAIN task_out :
          /\ task_out[i] = "Panic"
          /\ task_out[j] = "Ok" /\ rx_got[j] = "Stop"

\* C8: a listener whose receive() returned Stop has left its loop on that
\* observation and its task yields Ok(()), whatever it accepted before.
C8_StopEndsListenerNormally ==
    mode = "serve" =>
        \A i \in DOMAIN kinds :
           rx_got[i] = "Stop" =>
              /\ srv_pc[i] = "done"
              /\ task_out[i] = "Ok"

C8_Witness ==
    /\ mode = "serve"
    /\ \E i, j \in DOMAIN kinds :
          /\ kinds[i] = "TCP" /\ accepted[i] >= 1
          /\ rx_got[i] = "Stop" /\ task_out[i] = "Ok"
          /\ kinds[j] = "UDP"
          /\ rx_got[j] = "Stop" /\ task_out[j] = "Ok"

\* C9: a Stop sent before a receiver calls receive(), with nothing sent
\* after it, is not lost: that receiver's receive() does not suspend, and
\* it returns Stop; a listener that started its loop after the Stop has
\* observed Stop if it has observed anything.
C9_NoLostStop ==
    /\ \A r \in DOMAIN rx_pc :
          (last_sent = "Stop" /\ ~rx_fresh[r]) =>
             /\ rx_pc[r] = "changed" => rx_version[r] /= sig_version
             /\ rx_pc[r] = "borrow" => sig_value = "Stop"
    /\ \A i \in DOMAIN kinds :
          (started_late[i] /\ rx_got[i] /= "none") => rx_got[i] = "Stop"

C9_Witness ==
    /\ mode = "serve"
    /\ \E i \in DOMAIN kinds :
          /\ started_late[i]
          /\ rx_got[i] = "Stop"
          /\ task_out[i] = "Ok"

\* C10: the value receive() returned is the value sent last, as long as
\* nothing is sent after it returned; and a receive() that follows one that
\* returned, with nothing sent in between and the Sender alive, suspends.
C10_LatestValueWins ==
    \A r \in DOMAIN rx_pc :
       (rx_got[r] /= "none" /\ rx_fresh[r] /\ sends > 0) =>
          /\ rx_got[r] = last_sent
          /\ (rx_pc[r] = "changed" /\ sender_alive) =>
                rx_version[r] = sig_version

\* C11: whether or not the Sender still exists, receive() returns only
\* after a send() wrote the value slot since this receiver's last
\* observation, and it returns the current value.
C11_ReceiveWaitsForSend ==
    [][ \A r \in DOMAIN rx_pc :
          (rx_pc[r] = "borrow" /\ rx_pc'[r] = "idle") =>
             /\ ~rx_fresh[r]
             /\ rx_got'[r] = sig_value ]_vars

\* What serve() itself does next, whichever select! branch it takes.
ServeStep ==
    \/ ServeCtrlC
    \/ ServeCtrlCUnwrap
    \/ ServePollAny
    \/ ServeStop
    \/ ServeWaitForAll
    \/ ServePollAll
    \/ ServeCollect

\* What the task of listener i does by itself: bind, and take the signal
\* branch of its select! (connections and datagrams come from outside).
ListenerStep(i) ==
    /\ i \in DOMAIN kinds
    /\ \/ \E bound \in BOOLEAN : TCPStart(i, bound)
       \/ \E bound \in BOOLEAN : UDPStart(i, bound)
       \/ UnixStart(i)
       \/ ListenerChanged(i)
       \/ ListenerSignal(i)

\* serve() under a fair scheduler: the task of serve() and every listener
\* task keeps being polled while it can make a step that moves it on.
FairServe ==
    /\ InitServe
    /\ [][NextServe]_vars
    /\ WF_<<serve_pc, future_states>>(ServeStep)
    /\ \A i \in 1..MaxServers : WF_<<srv_pc, rx_pc>>(ListenerStep(i))

\* Stop has been broadcast by serve().
StopBroadcast == mode = "serve" /\ last_sent = "Stop"

\* Every listener task has ended and the wait-for-all join has resolved.
AllJoined ==
    /\ \A i \in DOMAIN kinds : srv_pc[i] = "done" /\ task_out[i] \in Outputs
    /\ strategy = "All"
    /\ wf_state = "resolved"

\* C12 as claimed: once Stop is broadcast, every listener returns, the
\* wait-for-all join resolves and serve() returns.
C12_StopLeadsToReturn ==
    StopBroadcast ~> (AllJoined /\ serve_pc = "returned")

\* C12: once Stop is broadcast, every listener task ends by itself, the
\* wait-for-all join resolves, and serve() ends: it returns when no listener
\* ended in a panic, and ends in the panic "server task panicked" otherwise.
C12_StopLeadsToEnd ==
    /\ StopBroadcast ~>
          (/\ AllJoined
           /\ ServeEnded
           /\ serve_pc = "returned" <=>
                 (\A i \in DOMAIN kinds : task_out[i] /= "Panic")
           /\ serve_pc = "panicked" =>
                 serve_result = [kind |-> "panic",
                                 msg |-> "server task panicked"])
    /\ [](\A i \in DOMAIN kinds :
             srv_pc[i] = "done" => task_out[i] \in Outputs)

C12_Witness ==
    /\ StopBroadcast
    /\ AllJoined
    /\ serve_pc = "returned"
    /\ Len(kinds) = 2
    /\ \E i \in DOMAIN kinds :
          kinds[i] = "TCP" /\ accepted[i] > 0 /\ rx_got[i] = "Stop"

\* The number of candidates the constructor was given.
CtorLength ==
    IF ctor.kind = "Weighted" THEN Len(ctor.weights)
    ELSE IF ctor.kind = "init" THEN Len(ctor.conf.hosts)
    ELSE ctor.length

\* The weights the constructor of a weighted sampler was given.
CtorWeights ==
    IF ctor.kind = "Weighted" THEN ctor.weights
    ELSE [i \in 1..Len(ctor.conf.hosts) |->
             UnwrapOr(ctor.conf.hosts[i].weight, 1)]

\* C13: the j-th sample() of a fresh RoundRobinSampler(n) is (j - 1) mod n,
\* so k*n calls return k repetitions of 0, 1, ..., n-1 in order.
C13_RoundRobinCycles ==
    (ctor.kind = "RoundRobin" /\ sampler.tag = "Ok") =>
        LET n == ctor.length IN
        /\ up_fault = "none"
        /\ \A j \in 1..Len(samples) : samples[j] = (j - 1) % n
        /\ \A k \in 1..MaxSamples :
              Len(samples) = k * n =>
                 \A c \in 0..(k - 1), i \in 0..(n - 1) :
                    samples[c * n + i + 1] = i

C13_Witness ==
    /\ ctor = [kind |-> "RoundRobin", length |-> 3]
    /\ samples = <<0, 1, 2, 0, 1, 2>>

\* C14: every index a sampler over n candidates returns is in 0..n-1, n
\* stays what it was at construction, and a weighted sampler never returns
\* an index whose weight is 0.
C14_SampleInRange ==
    (ctor.kind /= "none" /\ sampler.tag = "Ok") =>
        /\ SamplerLength(sampler.val) = CtorLength
        /\ \A j \in 1..Len(samples) :
              /\ samples[j] \in 0..(CtorLength - 1)
              /\ sampler.val.kind = "Weighted" =>
                    CtorWeights[samples[j] + 1] > 0

C14_Witness ==
    /\ ctor.kind = "Weighted"
    /\ Len(ctor.weights) = 3
    /\ \E i \in 1..3 : ctor.weights[i] = 0
    /\ Len(samples) = 2
    /\ samples[1] /= samples[2]

\* C15: RoundRobinSampler::new(n) is Err(ZeroLength) exactly for n = 0;
\* WeightedSampler::new is Err(NoItem) for an empty list, an error for
\* all-zero weights and Ok with a positive weight; sample() never fails.
C15_DegenerateRejectedAtConstruction ==
    /\ ctor.kind = "RoundRobin" =>
          /\ sampler.tag \in {"Ok", "Err"}
          /\ sampler = Err("ZeroLength") <=> ctor.length = 0
    /\ ctor.kind = "Weighted" =>
          LET w == ctor.weights IN
          /\ Len(w) = 0 => sampler = Err("NoItem")
          /\ (Len(w) > 0 /\ \A i \in 1..Len(w) : w[i] = 0) =>
                sampler.tag = "Err"
          /\ (\E i \in 1..Len(w) : w[i] > 0) => sampler.tag = "Ok"
    /\ up_fault /= "unwrap on None"
    /\ ctor.kind \in {"RoundRobin", "Weighted"} => up_fault = "none"

C15_Witness ==
    /\ ctor = [kind |-> "Weighted", weights |-> <<0, 0>>]
    /\ sampler = Err("AllWeightsZero")

\* C16: on an upstream with a round-robin sampler over its n hosts, the
\* j-th next() (from 0) returns the port of host j mod n, whatever the
\* hosts' weights.
C16_NextFollowsHostOrder ==
    (/\ upstream.tag = "Ok"
     /\ sampler.tag = "Ok"
     /\ sampler.val.kind = "RoundRobin"
     /\ SamplerLength(sampler.val) = Len(upstream.hosts)) =>
        LET n == Len(upstream.hosts) IN
        /\ up_fault = "none"
        /\ Len(addrs) = Len(samples)
        /\ \A j \in 1..Len(addrs) :
              addrs[j] = [ip |-> "127.0.0.1",
                          port |-> upstream.hosts[((j - 1) % n) + 1].port]

C16_Witness ==
    /\ ctor.kind = "new"
    /\ ctor.length = 2
    /\ upstream.hosts = <<Host(8080, 2), Host(8081, 1)>>
    /\ Len(addrs) = 4
    /\ addrs[3].port = 8080
    /\ addrs[4].port = 8081

\* C17: an upstream built by init() has a non-empty host list and a sampler
\* over exactly that many candidates; an empty host list is a ConfigError
\* and no sampler or upstream is built for it; next() on such an upstream
\* never reaches "sample index out of range".
C17_InitUpstreamConsistent ==
    ctor.kind = "init" =>
        /\ upstream.tag \in {"Ok", "Err"}
        /\ upstream.tag = "Ok" =>
              /\ Len(upstream.hosts) > 0
              /\ Len(upstream.hosts) = Len(ctor.conf.hosts)
              /\ sampler.tag = "Ok"
              /\ SamplerLength(sampler.val) = Len(upstream.hosts)
        /\ Len(ctor.conf.hosts) = 0 =>
              /\ upstream.tag = "Err"
              /\ upstream.err.kind = "ConfigError"
              /\ sampler.tag = "none"
        /\ up_fault = "none"
        /\ Len(addrs) = Len(samples)

C17_Witness ==
    /\ ctor.kind = "init"
    /\ upstream.tag = "Ok"
    /\ Len(upstream.hosts) = 2
    /\ sampler.val.kind = "Weighted"
    /\ Len(addrs) = 2
    /\ addrs[1] /= addrs[2]

\* The failed() calls that lie no more than fail_timeout before the latest.
CallsInWindow ==
    SelectSeq(calls, LAMBDA t : t >= calls[Len(calls)] - fail_timeout)

\* C18 as claimed: in every state, whatever time has passed, the failure
\* window holds no timestamp older than now - fail_timeout.
C18_WindowNeverStale ==
    \A k \in 1..Len(fails) : fails[k] >= now - fail_timeout

\* C18: the window is pruned by failed() only: it holds no timestamp older
\* than fail_timeout before the latest failed() call, which last_fail
\* records, and it holds that call's own timestamp.
C18_WindowPrunedAtFailure ==
    (mode = "host" /\ calls /= <<>>) =>
        /\ last_fail = calls[Len(calls)]
        /\ last_fail <= now
        /\ fails /= <<>>
        /\ fails[Len(fails)] = last_fail
        /\ \A k \in 1..Len(fails) : fails[k] >= last_fail - fail_timeout
        /\ \A k \in 1..(Len(fails) - 1) : fails[k] <= fails[k + 1]

C18_Witness ==
    /\ mode = "host"
    /\ Len(fails) >= 2
    /\ Len(calls) > Len(fails)
    /\ now > last_fail + fail_timeout
    /\ fails[1] < last_fail

\* C19 as claimed: after N failed() calls on a fresh Host, each less than
\* fail_timeout after the previous one, the window holds exactly N entries.
C19_SpacedCallsAllKept ==
    (/\ mode = "host"
     /\ calls /= <<>>
     /\ \A k \in 2..Len(calls) : calls[k] - calls[k - 1] < fail_timeout) =>
        Len(fails) = Len(calls)

\* C19: after N failed() calls on a fresh Host the window holds exactly the
\* calls made no more than fail_timeout before the latest one; so it holds
\* exactly N entries when all N calls lie within fail_timeout of the first.
C19_WindowHoldsRecentCalls ==
    (mode = "host" /\ calls /= <<>>) =>
        /\ fails = CallsInWindow
        /\ calls[Len(calls)] - calls[1] <= fail_timeout =>
              Len(fails) = Len(calls)

C19_Witness ==
    /\ mode = "host"
    /\ Len(calls) = 3
    /\ calls[3] - calls[1] = fail_timeout
    /\ calls[1] < calls[2]
    /\ calls[2] < calls[3]
    /\ Len(fails) = 3

\* C20: a failed() call made more than fail_timeout after the previous one
\* (or the first one on a fresh Host) leaves exactly one entry in the
\* window, its own.
C20_LateFailureLeavesOne ==
    (/\ mode = "host"
     /\ calls /= <<>>
     /\ \/ Len(calls) = 1
        \/ calls[Len(calls)] - calls[Len(calls) - 1] > fail_timeout) =>
        fails = <<calls[Len(calls)]>>

C20_Witness ==
    /\ mode = "host"
    /\ Len(calls) = 3
    /\ fail_timeout > 0
    /\ calls[2] - calls[1] < fail_timeout
    /\ calls[3] - calls[2] > fail_timeout
    /\ Len(fails) = 1

\* The fields that make up the identity of a Host.
IdentityOf(h) == <<h.hostname, h.port, h.weight, h.max_fails, h.fail_timeout>>

\* The Hosts that differ from h at most in ipv6, max_conns, last_fail and
\* the failure window.
VolatileVariants(h) ==
    {[h EXCEPT !.ipv6 = i, !.max_conns = c, !.last_fail = l, !.fails = f] :
        i \in BOOLEAN, c \in {512, 1024}, l \in 0..MaxEqTime,
        f \in {<<>>, <<0>>}}

\* C21: two Hosts are equal exactly when hostname, port, weight, max_fails
\* and fail_timeout match; ipv6, max_conns, last_fail and the failure
\* window never affect the comparison, and a failed() call never changes
\* whether the two Hosts are equal.
C21_HostEqByIdentity ==
    /\ [](mode = "hosteq" =>
            LET a == host_pair[1]
                b == host_pair[2]
            IN /\ HostEq(a, b) <=> IdentityOf(a) = IdentityOf(b)
               /\ \A v \in VolatileVariants(a) : HostEq(v, b) <=> HostEq(a, b)
               /\ eq_result /= "none" =>
                     ((eq_result = "true") <=> IdentityOf(a) = IdentityOf(b)))
    /\ [][mode = "hosteq" =>
            (HostEq(host_pair'[1], host_pair'[2])
                <=> HostEq(host_pair[1], host_pair[2]))]_vars

C21_Witness ==
    /\ mode = "hosteq"
    /\ eq_result = "true"
    /\ host_pair[1].fails /= host_pair[2].fails
    /\ host_pair[1].last_fail /= host_pair[2].last_fail
    /\ host_pair[1].ipv6 /= host_pair[2].ipv6
    /\ host_pair[1].max_conns /= host_pair[2].max_conns

\* init() got as far as choosing the sampler: the resolver was found and
\* the host list is not empty.
ReachedSamplerChoice ==
    /\ ctor.kind = "init"
    /\ ctor.conf.resolver
    /\ Len(ctor.conf.hosts) > 0

\* No host of the configured group has an explicit weight.
NoExplicitWeight ==
    \A i \in 1..Len(ctor.conf.hosts) : ctor.conf.hosts[i].weight = {}

\* The upstream built is sampled by weight, with weight 1 for every host
\* that has no explicit weight.
BuiltWeighted ==
    /\ upstream.tag = "Ok"
    /\ sampler.tag = "Ok"
    /\ sampler.val.kind = "Weighted"
    /\ sampler.val.dist = WeightedIndexNew(CtorWeights).val
    /\ \A i \in 1..Len(ctor.conf.hosts) :
          upstream.hosts[i].weight =
              IF ctor.conf.hosts[i].weight = {} THEN 1
              ELSE UnwrapOr(ctor.conf.hosts[i].weight, 1)

\* C22 as claimed: as soon as one host has an explicit weight, init() builds
\* a weighted upstream, whatever the weights are.
C22_WeightedWheneverExplicit ==
    ReachedSamplerChoice =>
        /\ NoExplicitWeight <=>
              (upstream.tag = "Ok" /\ sampler.tag = "Ok"
                  /\ sampler.val.kind = "RoundRobin")
        /\ ~NoExplicitWeight => BuiltWeighted

\* C22: init() builds a round-robin upstream exactly when no host has an
\* explicit weight; with an explicit weight somewhere and a positive total
\* it builds a weighted upstream where a host without explicit weight
\* counts 1; when the weights sum to zero it builds nothing and fails with
\* a ConfigError.
C22_SamplerByExplicitWeight ==
    ReachedSamplerChoice =>
        /\ NoExplicitWeight <=>
              (upstream.tag = "Ok" /\ sampler.tag = "Ok"
                  /\ sampler.val.kind = "RoundRobin")
        /\ (~NoExplicitWeight /\ SumTo(CtorWeights, Len(CtorWeights)) > 0) =>
              BuiltWeighted
        /\ (~NoExplicitWeight /\ SumTo(CtorWeights, Len(CtorWeights)) = 0) =>
              /\ upstream.tag = "Err"
              /\ upstream.err.kind = "ConfigError"
              /\ sampler.tag = "none"

C22_Witness ==
    /\ ReachedSamplerChoice
    /\ Len(ctor.conf.hosts) = 2
    /\ ctor.conf.hosts[1].weight = {}
    /\ ctor.conf.hosts[2].weight = {2}
    /\ BuiltWeighted
    /\ sampler.val.dist.total_weight = 3
    /\ Len(addrs) = 2

\* C23 as claimed: next() hands out a socket address only when the Resolver
\* resolved the selected host's name, and the address is the Resolver's; a
\* failed resolution reaches the caller as an error and no address.
C23_AddressOnlyWhenResolved ==
    (mode = "upstream" /\ upstream.tag = "Ok") =>
        \A j \in 1..Len(addrs) :
            /\ ResolverResolve("hostname").tag = "Ok"
            /\ addrs[j].ip = ResolverResolve("hostname").val

\* C24: a poll of a combinator with strategy All over an empty sequence
\* resolves it, and the result is the empty sequence.
C24_AllOverNothingResolves ==
    [][ (PollStep /\ strategy = "All" /\ Len(future_states) = 0) =>
          /\ wf_state' = "resolved"
          /\ handed' = <<>>
          /\ future_states' = <<>>
      ]_vars

C24_Witness ==
    /\ mode = "waitfor"
    /\ strategy = "All"
    /\ input = <<>>
    /\ instances = 1
    /\ last_op = "poll"
    /\ wf_state = "resolved"
    /\ handed = <<>>

\* A step that is a call of cease().
CeaseStep ==
    /\ wf_state \in {"live", "resolved"}
    /\ last_op' = "cease"
    /\ wf_state' = "ceased"

\* C25: cease() on a combinator that has not resolved gives back one entry
\* per task of the original sequence, at the task's own position: Pending
\* with the task's future, or Ready with the task's result; in serve()'s
\* ctrl_c branch that is one entry per spawned server, and wait_for_all is
\* given as many. A resolved combinator holds the empty sequence, and
\* cease() on it gives back the empty sequence.
C25_CeaseKeepsEveryTask ==
    /\ [][ (CeaseStep /\ wf_state = "live") =>
             /\ handed' = future_states
             /\ Len(handed') = Len(input)
             /\ \A i \in 1..Len(input) :
                   \/ handed'[i] = Pending(i)
                   \/ Completed(i) /\ handed'[i] = Ready(task_out[i])
             /\ origin.how /= "fresh" =>
                   \A i \in 1..Len(input) :
                       IsReady(input[i]) => handed'[i] = input[i]
             /\ mode = "serve" => Len(handed') = Len(kinds)
         ]_vars
    /\ [][ (CeaseStep /\ wf_state = "resolved") => handed' = <<>> ]_vars
    /\ [](wf_state = "resolved" => future_states = <<>>)
    /\ []((mode = "serve" /\ ctrl_c = "Ok" /\ serve_pc = "wait_all") =>
             Len(input) = Len(kinds))

C25_Witness ==
    /\ mode = "waitfor"
    /\ last_op = "cease"
    /\ Len(handed) = 3
    /\ handed[1] = Pending(1)
    /\ handed[2] = Ready("Ok")
    /\ handed[3] = Pending(3)
    /\ task_out[3] = "BindError"

\* Every spawned task has ended.
AllEnded == \A i \in DOMAIN kinds : srv_pc[i] = "done"

\* The result of wait_for_all once every task has ended.
Joined == [i \in 1..Len(task_out) |-> Ready(task_out[i])]

RECURSIVE ErrTasksFrom(_)
ErrTasksFrom(k) ==
    IF k > Len(task_out) THEN <<>>
    ELSE IF task_out[k] = "BindError"
         THEN <<[err |-> "BindError", task |-> k]>> \o ErrTasksFrom(k + 1)
         ELSE ErrTasksFrom(k + 1)

\* C27: serve() returns only after every task has ended and been joined;
\* it returns Ok(()) exactly when every task returned Ok(()), and else Err
\* with the ServerError of every task that returned Err, one each, in task
\* order; when every task ended by returning, the loop over the results
\* does not panic.
C27_ServeReturnsErrorsInOrder ==
    /\ (mode = "serve" /\ serve_pc = "returned") =>
          /\ \A i \in DOMAIN kinds :
                /\ srv_pc[i] = "done"
                /\ task_out[i] \in {"Ok", "BindError"}
          /\ wf_state = "resolved"
          /\ strategy = "All"
          /\ handed = Joined
          /\ serve_result.kind \in {"Ok", "Err"}
          /\ serve_result.kind = "Ok" <=>
                \A i \in DOMAIN kinds : task_out[i] = "Ok"
          /\ serve_result.kind = "Err" =>
                serve_result.errors = ErrTasksFrom(1)
    /\ (mode = "serve" /\ serve_pc = "panicked"
            /\ serve_result.msg /= "ctrl_c") =>
          \E i \in DOMAIN kinds : task_out[i] = "Panic"

C27_Witness ==
    /\ mode = "serve"
    /\ serve_pc = "returned"
    /\ Len(kinds) = 2
    /\ task_out = <<"BindError", "BindError">>
    /\ serve_result.kind = "Err"
    /\ Len(serve_result.errors) = 2
    /\ serve_result.errors[1].task = 1
    /\ serve_result.errors[2].task = 2

\* C28: a poll of a combinator with strategy Any over an empty sequence
\* leaves it unresolved, so such a combinator is never resolved; serve()
\* with no server never takes the watchdog branch of its select!, and is
\* past the select! only when ctrl_c() has returned.
C28_AnyOverNothingNeverResolves ==
    /\ [][ (PollStep /\ strategy = "Any" /\ Len(future_states) = 0) =>
             /\ wf_state' = "live"
             /\ future_states' = <<>>
             /\ handed' = handed
         ]_vars
    /\ []((strategy = "Any" /\ input = <<>>) => wf_state /= "resolved")
    /\ []((mode = "serve" /\ Len(kinds) = 0) =>
             /\ serve_pc /= "stop"
             /\ serve_pc /= "select" => ctrl_c /= "none")

C28_Witness ==
    /\ mode = "waitfor"
    /\ strategy = "Any"
    /\ input = <<>>
    /\ instances = 1
    /\ last_op = "poll"
    /\ wf_state = "live"
    /\ handed = <<>>

=============================================================================
